---- MODULE Spec2Model ----
(***************************************************************************)
(* Model of jumanji/environments/combinatorial/binpack/instance_generator  *)
(* .py: the RandomInstanceGenerator (recursive splitting of a container    *)
(* into item spaces inside fixed-capacity arrays), the assembly of the     *)
(* solved State record and the reset transform _unpack_items; the         *)
(* deterministic generators ToyInstanceGenerator and CSVInstanceGenerator  *)
(* and the serializer save_instance_to_csv.                                *)
(*                                                                         *)
(* Arrays are functions over 0..n-1, as in the source.  Every random draw  *)
(* is a nondeterministic choice over the values the draw can return.  PRNG *)
(* keys are derivation paths: jax.random.split(k, n) yields k \o <<0>>,    *)
(* ..., k \o <<n-1>>.  State records live in a heap of objects so that     *)
(* attribute assignment on a record is visible through every reference.    *)
(***************************************************************************)
EXTENDS Integers, Sequences, FiniteSets, TLC

\* ---------------------------------------------------------------- bounds
MaxLength == 3
MaxNumItems == 4
MaxSplitSame == 3
MaxNumEms == 2
MaxRounds == 3

\* The uniform draw of the mode test is a float32 of [0, 1): it is modelled
\* as u / 2^UniformBits with u in 0 .. 2^UniformBits - 1.
UniformBits == 1

\* The longest container of the specification of the binary split range.
MaxRangeLength == 7

\* Modelled container dimensions: every length up to MaxLength with unit
\* width and height, and one container that is not a line.
ContainerDims == ((1 .. MaxLength) \X {1} \X {1}) \cup {<<2, 2, 1>>}

\* split_eps as a fraction <<numerator, denominator>>, in (0, 0.5).
SplitEpsValues == {<<3, 10>>, <<49, 100>>}

\* A split_eps of (0, 0.5) that is closer to 0.5 than to the float32 value
\* below 0.5: 0.49999999.
NearHalfEps == <<49999999, 100000000>>

\* The values of split_eps of the specification of the split range.
RangeEpsValues == SplitEpsValues \cup {NearHalfEps}

\* The container dimensions of the specification of the split range.
RangeDims == ContainerDims \cup {<<MaxRangeLength, 1, 1>>}

\* prob_split_one_item as <<m, e>>, the Python float m / 2^e with m < 2^24:
\* 0.0, 0.5 and 1.0.
ProbValues == {<<0, 0>>, <<1, 1>>, <<1, 0>>}

\* A positive prob_split_one_item that is below half of the smallest
\* positive float32, 2^-149: the Python float 2^-200.
TinyProb == <<1, 200>>

Axes == {"x", "y", "z"}

VARIABLES
    cfg,           \* constructor arguments of RandomInstanceGenerator
    pc,            \* "init", "loop", "solved", "reset"
    items_spaces,  \* while_loop carry: Space of arrays, one box per slot
    items_mask,    \* while_loop carry: occupancy mask
    key,           \* while_loop carry: the loop key
    state_key,     \* key stored in the State record
    keyLog,        \* every use of a key, in program order
    nrounds,       \* number of executed body_fun rounds, at most MaxRounds
    heap,          \* State objects, indexed by reference
    solution,      \* reference returned by _generate_solved_instance
    state,         \* reference returned by _unpack_items
    solved0,       \* value of the solved record when it was returned
    gen,           \* the generator in use: "random", "toy", "csv", or "state"
                   \* when a State is handed to save_instance_to_csv directly
    csv_file,      \* the file at csv_path: a sequence of rows of cells
    instance_from_csv, \* reference of CSVInstanceGenerator.instance_from_csv
    error,         \* the exception raised by the constructor, "" when none
    out_file,      \* the file written by save_instance_to_csv
    reloaded,      \* outcome of CSVInstanceGenerator(path of out_file)
    calls          \* the calls made on a deterministic generator, in order

\* The state of the deterministic generators and of the serializer.
detVars == <<gen, csv_file, instance_from_csv, error, out_file, reloaded, calls>>

vars == <<cfg, pc, items_spaces, items_mask, key, state_key, keyLog, nrounds,
          heap, solution, state, solved0, gen, csv_file,
          instance_from_csv, error, out_file, reloaded, calls>>

\* ------------------------------------------------------------ primitives
Slots(c) == 0 .. c.max_num_items - 1

Count(mask) == Cardinality({i \in DOMAIN mask : mask[i]})

make_container(dims) ==
    [x1 |-> 0, x2 |-> dims[1], y1 |-> 0, y2 |-> dims[2], z1 |-> 0, z2 |-> dims[3]]

empty_ems == [x1 |-> 0, x2 |-> 0, y1 |-> 0, y2 |-> 0, z1 |-> 0, z2 |-> 0]

AxisField(axis, index) ==
    CASE axis = "x" /\ index = 1 -> "x1"
      [] axis = "x" /\ index = 2 -> "x2"
      [] axis = "y" /\ index = 1 -> "y1"
      [] axis = "y" /\ index = 2 -> "y2"
      [] axis = "z" /\ index = 1 -> "z1"
      [] axis = "z" /\ index = 2 -> "z2"

get_axis_value(space, axis, index) == space[AxisField(axis, index)]

is_empty(space) ==
    (space.x1 >= space.x2) \/ (space.y1 >= space.y2) \/ (space.z1 >= space.z2)

item_from_space(space) ==
    [x_len |-> space.x2 - space.x1,
     y_len |-> space.y2 - space.y1,
     z_len |-> space.z2 - space.z1]

location_from_space(space) == [x |-> space.x1, y |-> space.y1, z |-> space.z1]

AxisLen(item, axis) ==
    CASE axis = "x" -> item.x_len [] axis = "y" -> item.y_len [] axis = "z" -> item.z_len

\* jnp.int32(f) of a non-negative quotient num / den: truncation.
Int32(num, den) == num \div den

\* The powers of two of the int32 range, computed once.
Pow2Table ==
    LET pow[e \in 0 .. 30] == IF e = 0 THEN 1 ELSE 2 * pow[e - 1] IN pow

Pow2(e) == Pow2Table[e]

\* Number of significant bits of a float32.
MantissaBits == 24

\* A float32 is modelled as <<m, e>>, the value m / 2^e with m <= 2^24 (a
\* mantissa below 2^24, or 2^24 when rounding carried into the next power
\* of two).
\* ToFloat32 is the conversion of the Python float num / den (0 < num < den)
\* to float32, round to nearest, ties to even: q is the mantissa built so
\* far, r the remainder and e the number of binary digits taken.
RECURSIVE ToFloat32(_, _, _, _)
ToFloat32(q, r, den, e) ==
    IF q >= Pow2(MantissaBits - 1)
    THEN IF 2 * r > den \/ (2 * r = den /\ q % 2 = 1) THEN <<q + 1, e>> ELSE <<q, e>>
    ELSE IF 2 * r >= den
         THEN ToFloat32(2 * q + 1, 2 * r - den, den, e + 1)
         ELSE ToFloat32(2 * q, 2 * r, den, e + 1)

\* The float32 value of every modelled split_eps, computed once.
Float32Table ==
    [eps \in RangeEpsValues |-> ToFloat32(0, eps[1], eps[2], 0)]

\* The float32 value of self._split_eps in self._split_eps * axis_len.
Float32(eps) == Float32Table[eps]

\* The number of low bits a product has beyond the float32 mantissa.
RECURSIVE ExtraBits(_)
ExtraBits(m) == IF m < Pow2(MantissaBits) THEN 0 ELSE 1 + ExtraBits(m \div 2)

\* The float32 product of the float32 f and the float32 n (an integer,
\* 0 <= n < 2^7): the exact product rounded to nearest, ties to even.
Float32Mul(f, n) ==
    LET m == f[1] * n
        s == ExtraBits(m)
        q == m \div Pow2(s)
        r == m % Pow2(s)
    IN  IF s = 0 THEN <<m, f[2]>>
        ELSE IF 2 * r > Pow2(s) \/ (2 * r = Pow2(s) /\ q % 2 = 1)
             THEN <<q + 1, f[2] - s>>
             ELSE <<q, f[2] - s>>

\* The largest and the smallest int32.
MaxInt32 == 2147483647

MinInt32 == (0 - MaxInt32) - 1

\* The int32 sum a + b, which wraps around modulo 2^32.
AddInt32(a, b) ==
    IF a > 0 /\ b > MaxInt32 - a
    THEN ((a - MaxInt32) - 1) + ((b - MaxInt32) - 1)
    ELSE IF a < 0 /\ b < MinInt32 - a
         THEN ((a + MaxInt32) + 1) + ((b + MaxInt32) + 1)
         ELSE a + b

\* The int32 product i * x of a loop index i >= 0 and an int32 x, which
\* wraps around modulo 2^32: i wrapping additions of x.
RECURSIVE MulInt32(_, _)
MulInt32(i, x) == IF i = 0 THEN 0 ELSE AddInt32(MulInt32(i - 1, x), x)

\* The number of binary digits of v >= 0.
RECURSIVE BitLength(_)
BitLength(v) == IF v = 0 THEN 0 ELSE 1 + BitLength(v \div 2)

\* The float32 value of the integer x, 0 <= x < 2^31 - 64: x rounded to 24
\* significant bits, to nearest, ties to even.  The value is an integer.
RoundFloat32(x) ==
    LET s == ExtraBits(x)
        q == x \div Pow2(s)
        r == x % Pow2(s)
    IN  IF s = 0 THEN x
        ELSE IF 2 * r > Pow2(s) \/ (2 * r = Pow2(s) /\ q % 2 = 1)
             THEN (q + 1) * Pow2(s)
             ELSE q * Pow2(s)

\* jnp.int32(X / n) for the float32 values X (an integer, 0 <= X < 2^31) and
\* n (1 <= n < 2^24): the float32 quotient, rounded to nearest, ties to
\* even, then truncated.  A quotient of 2^24 or more is rounded to a
\* multiple of 2^s, which is an integer; a smaller quotient has f binary
\* digits after the point and is truncated to the integer below, except
\* when rounding carries it to the integer above.
QuotientFloat32(X, n) ==
    LET q0 == X \div n
        r0 == X % n
    IN  IF q0 >= Pow2(MantissaBits)
        THEN LET g == Pow2(ExtraBits(q0))
                 q == q0 \div g
                 R == X - q * n * g
             IN  IF 2 * R > n * g \/ (2 * R = n * g /\ q % 2 = 1)
                 THEN (q + 1) * g
                 ELSE q * g
        ELSE IF r0 = 0 \/ q0 = 0 THEN q0
        ELSE LET f == MantissaBits - BitLength(q0)
                 h == Pow2(f + 1)
                 gap == n - r0
             IN  IF gap < n \div h \/ (gap = n \div h /\ n % h # 0) THEN q0 + 1
                 ELSE IF gap = n \div h /\ (f >= 1 \/ q0 % 2 = 1) THEN q0 + 1
                 ELSE q0

\* jnp.int32(x / n) of the int32 values x and n (1 <= n < 2^7): both are
\* converted to float32, divided in float32, and the quotient is truncated
\* towards zero.  An x within 64 of the int32 bounds becomes the float32
\* 2^31 (or -2^31), whose quotient is twice that of 2^30; the quotient 2^31
\* itself is above the int32 range and is converted to the largest int32.
DivInt32(x, n) ==
    IF x >= 0
    THEN IF x > MaxInt32 - Pow2(30 - MantissaBits)
         THEN IF n = 1 THEN MaxInt32 ELSE 2 * QuotientFloat32(Pow2(30), n)
         ELSE QuotientFloat32(RoundFloat32(x), n)
    ELSE IF x < Pow2(30 - MantissaBits) - MaxInt32
         THEN IF n = 1 THEN MinInt32 ELSE 0 - 2 * QuotientFloat32(Pow2(30), n)
         ELSE 0 - QuotientFloat32(RoundFloat32(0 - x), n)

\* Mutant of the padding: the product is rounded up, not truncated.
PaddingRoundedUp(eps, axis_len) ==
    LET f == Float32Mul(Float32(eps), RoundFloat32(axis_len))
    IN  Int32(f[1] + Pow2(f[2]) - 1, Pow2(f[2]))

\* jnp.int32(self._split_eps * axis_len) for every modelled split_eps and
\* every axis length of a slot, computed once.  An axis length below 2^24
\* is its own float32 value.
PaddingTable ==
    [eps \in RangeEpsValues |->
        [axis_len \in 0 .. MaxRangeLength |->
            LET f == Float32Mul(Float32(eps), RoundFloat32(axis_len))
            IN  Int32(f[1], Pow2(f[2]))]]

\* jnp.int32(self._split_eps * axis_len)
Padding(eps, axis_len) == PaddingTable[eps][axis_len]

\* Mutant of jnp.argmin: jnp.argmax, the first True, or 0 when all are False.
ArgMax(mask) ==
    IF \E i \in DOMAIN mask : mask[i]
    THEN CHOOSE i \in DOMAIN mask : mask[i] /\ \A j \in DOMAIN mask : mask[j] => i <= j
    ELSE 0

\* jnp.argmin of a boolean array: the first False, or 0 when all are True.
ArgMin(mask) ==
    IF \E i \in DOMAIN mask : ~mask[i]
    THEN CHOOSE i \in DOMAIN mask : ~mask[i] /\ \A j \in DOMAIN mask : ~mask[j] => i <= j
    ELSE 0

\* jax.random.randint(key, (), minval, maxval): a value of [minval, maxval);
\* minval when the range is empty.
Randint(minval, maxval) ==
    IF maxval <= minval THEN {minval} ELSE minval .. maxval - 1

\* jax.random.choice over arange(len(p)) with weights p: an index of positive
\* weight; index 0 when every weight is 0.
Choice(p) ==
    IF \E i \in DOMAIN p : p[i] > 0 THEN {i \in DOMAIN p : p[i] > 0} ELSE {0}

\* jax.random.split(key, num)
SplitKey(k, num) == [i \in 0 .. num - 1 |-> k \o <<i>>]

Use(k, what) == [key |-> k, use |-> what]

\* The exponent of the smallest positive float32, 2^-149.
Float32MinExp == 149

\* The float32 value of self._prob_split_one_item in the mode test, as
\* <<m, e>>: a multiple of 2^-149 is kept, any other value is rounded to a
\* multiple of 2^-149, to nearest, ties to even, which is 0 for a value
\* below 2^-150.
ProbFloat32(prob) ==
    IF prob[2] <= Float32MinExp THEN prob
    ELSE LET s == prob[2] - Float32MinExp
         IN  IF s > MantissaBits THEN <<0, Float32MinExp>>
             ELSE LET q == prob[1] \div Pow2(s)
                      r == prob[1] % Pow2(s)
                  IN  IF 2 * r > Pow2(s) \/ (2 * r = Pow2(s) /\ q % 2 = 1)
                      THEN <<q + 1, Float32MinExp>>
                      ELSE <<q, Float32MinExp>>

\* --------------------------------------------------------- configuration
\* The constructor arguments: every combination of the modelled values, and
\* the 2 x 1 x 1 container with the positive probability that float32 does
\* not hold.
Configs ==
    [container_dims : ContainerDims,
     max_num_items : 1 .. MaxNumItems,
     max_num_ems : {MaxNumEms},
     split_eps : SplitEpsValues,
     prob_split_one_item : ProbValues,
     split_num_same_items : 1 .. MaxSplitSame]
    \cup
    [container_dims : {<<2, 1, 1>>},
     max_num_items : 1 .. MaxNumItems,
     max_num_ems : {MaxNumEms},
     split_eps : {<<3, 10>>},
     prob_split_one_item : {TinyProb},
     split_num_same_items : 1 .. MaxSplitSame]

\* ------------------------------------------------------ splitting engine
\* Mutant of cond_fun: the split_num_same_items margin is dropped.
cond_fun_no_margin(c, mask) ==
    Count(mask) < c.max_num_items

\* Mutant of cond_fun: off by one, a round still runs at the target count.
cond_fun_le(c, mask) ==
    Count(mask) <= c.max_num_items - c.split_num_same_items + 1

\* cond_fun of the while_loop.
cond_fun(c, mask) ==
    Count(mask) < c.max_num_items - c.split_num_same_items + 1

\* Mutant of the range of _split_item_once: the upper end is taken from the
\* lower bound of the slot, so the range is empty and randint returns axis_min.
SplitOnceRangeFromLower(c, item_space, axis, axis_len) ==
    LET pad == Padding(c.split_eps, axis_len)
        axis_min == get_axis_value(item_space, axis, 1) + pad
        axis_max == get_axis_value(item_space, axis, 1) - pad
    IN  Randint(axis_min, axis_max)

\* The integer range handed to randint by _split_item_once.
SplitOnceRange(c, item_space, axis, axis_len) ==
    LET pad == Padding(c.split_eps, axis_len)
        axis_min == get_axis_value(item_space, axis, 1) + pad
        axis_max == get_axis_value(item_space, axis, 2) - pad
    IN  Randint(axis_min, axis_max)

\* The integer range handed to randint by _split_item_multiple_times.
NumSplitRange(c) == Randint(1, c.split_num_same_items + 1)

\* Mutant of _split_item_once: the upper bound of the split slot is not
\* clamped to the split point.
SplitItemOnceKeepUpper(item_space, axis, axis_len, item_id, spaces, mask, axis_split) ==
    LET free_index == ArgMin(mask)
        s1 == [spaces EXCEPT ![free_index] = spaces[item_id]]
        s3 == [s1 EXCEPT ![free_index][AxisField(axis, 1)] = axis_split]
        m1 == [mask EXCEPT ![free_index] = TRUE]
    IN  [spaces |-> s3, mask |-> m1, allocs |-> <<free_index>>,
         free |-> ~mask[free_index], peak |-> Count(m1)]

\* Mutant of _split_item_once: the new slot is copied from slot 0, not from
\* the selected slot.
SplitItemOnceCopyFirst(item_space, axis, axis_len, item_id, spaces, mask, axis_split) ==
    LET free_index == ArgMin(mask)
        s1 == [spaces EXCEPT ![free_index] = spaces[0]]
        s2 == [s1 EXCEPT ![item_id][AxisField(axis, 2)] = axis_split]
        s3 == [s2 EXCEPT ![free_index][AxisField(axis, 1)] = axis_split]
        m1 == [mask EXCEPT ![free_index] = TRUE]
    IN  [spaces |-> s3, mask |-> m1, allocs |-> <<free_index>>,
         free |-> ~mask[free_index], peak |-> Count(m1)]

\* _split_item_once, given the drawn split point.
SplitItemOnce(item_space, axis, axis_len, item_id, spaces, mask, axis_split) ==
    LET free_index == ArgMin(mask)
        s1 == [spaces EXCEPT ![free_index] = spaces[item_id]]
        s2 == [s1 EXCEPT ![item_id][AxisField(axis, 2)] = axis_split]
        s3 == [s2 EXCEPT ![free_index][AxisField(axis, 1)] = axis_split]
        m1 == [mask EXCEPT ![free_index] = TRUE]
    IN  [spaces |-> s3, mask |-> m1, allocs |-> <<free_index>>,
         free |-> ~mask[free_index], peak |-> Count(m1)]

\* Mutant of body_fn: every piece gets the truncated width axis_len / num_split.
body_fn_equal_width(i, carry, initial_item_axis_1, axis, axis_len, item_id, num_split) ==
    LET free_index == ArgMin(carry.mask)
        s1 == [carry.spaces EXCEPT ![free_index] = carry.spaces[item_id]]
        item_axis_1 == initial_item_axis_1 + i * DivInt32(axis_len, num_split)
        item_axis_2 == initial_item_axis_1 + (i + 1) * DivInt32(axis_len, num_split)
        s2 == [s1 EXCEPT ![free_index][AxisField(axis, 1)] = item_axis_1]
        s3 == [s2 EXCEPT ![free_index][AxisField(axis, 2)] = item_axis_2]
        m1 == [carry.mask EXCEPT ![free_index] = TRUE]
    IN  [spaces |-> s3, mask |-> m1, allocs |-> Append(carry.allocs, free_index),
         free |-> carry.free /\ ~carry.mask[free_index],
         peak |-> IF Count(m1) > carry.peak THEN Count(m1) ELSE carry.peak]

\* body_fn of the fori_loop of _split_item_multiple_times.  The bounds of
\* piece i are computed as the code computes them: the int32 product
\* i * axis_len, its float32 quotient by num_split, the truncation to int32
\* and the int32 sum with the lower bound of the slot.
body_fn(i, carry, initial_item_axis_1, axis, axis_len, item_id, num_split) ==
    LET free_index == ArgMin(carry.mask)
        s1 == [carry.spaces EXCEPT ![free_index] = carry.spaces[item_id]]
        item_axis_1 == AddInt32(initial_item_axis_1,
                                DivInt32(MulInt32(i, axis_len), num_split))
        item_axis_2 == AddInt32(initial_item_axis_1,
                                DivInt32(MulInt32(i + 1, axis_len), num_split))
        s2 == [s1 EXCEPT ![free_index][AxisField(axis, 1)] = item_axis_1]
        s3 == [s2 EXCEPT ![free_index][AxisField(axis, 2)] = item_axis_2]
        m1 == [carry.mask EXCEPT ![free_index] = TRUE]
    IN  [spaces |-> s3, mask |-> m1, allocs |-> Append(carry.allocs, free_index),
         free |-> carry.free /\ ~carry.mask[free_index],
         peak |-> IF Count(m1) > carry.peak THEN Count(m1) ELSE carry.peak]

\* jax.lax.fori_loop(lower, upper, body_fn, carry).  The carry is bound by a
\* set constructor so that each iteration is evaluated once.
RECURSIVE fori_loop(_, _, _, _, _, _, _, _)
fori_loop(lower, upper, carry, initial_item_axis_1, axis, axis_len, item_id, num_split) ==
    CHOOSE result \in
        { IF lower >= upper THEN c
          ELSE fori_loop(lower + 1, upper,
                         body_fn(lower, c, initial_item_axis_1, axis, axis_len,
                                 item_id, num_split),
                         initial_item_axis_1, axis, axis_len, item_id, num_split) :
          c \in {carry} } : TRUE

\* _split_item_multiple_times, given the drawn number of pieces.  The upper
\* bound of the first piece is the lower bound plus
\* jnp.int32(axis_len / num_split), a float32 quotient.
SplitItemMultipleTimes(item_space, axis, axis_len, item_id, spaces, mask, num_split) ==
    LET initial_item_axis_1 == get_axis_value(item_space, axis, 1)
        s0 == [spaces EXCEPT ![item_id][AxisField(axis, 2)] =
                   AddInt32(initial_item_axis_1, DivInt32(axis_len, num_split))]
        carry0 == [spaces |-> s0, mask |-> mask, allocs |-> <<>>, free |-> TRUE,
                   peak |-> Count(mask)]
    IN  fori_loop(1, num_split, carry0, initial_item_axis_1, axis, axis_len,
                  item_id, num_split)

\* Mutant of the weights of _split_along_axis: the mask is not applied.
WeightsUnmasked(axis, spaces, mask) ==
    [i \in DOMAIN mask |-> AxisLen(item_from_space(spaces[i]), axis)]

\* Selection weights of _split_along_axis: jnp.where(items_mask, item_length, 0).
Weights(axis, spaces, mask) ==
    [i \in DOMAIN mask |->
        IF mask[i] THEN AxisLen(item_from_space(spaces[i]), axis) ELSE 0]

\* The mode test of _split_along_axis,
\* uniform(mode_key) < self._prob_split_one_item, a comparison of float32
\* values: of the draw u / 2^UniformBits with f = m / 2^e.  A draw of 0 is
\* below every positive f; a positive draw is at least 2^-UniformBits and is
\* not below an f of e >= 24 + UniformBits.
SplitOnce(c, u) ==
    LET f == ProbFloat32(c.prob_split_one_item)
    IN  IF u = 0 THEN f[1] > 0
        ELSE /\ f[2] < MantissaBits + UniformBits
             /\ u * Pow2(f[2]) < f[1] * Pow2(UniformBits)

\* The outcomes of the mode test over every value of the uniform draw.
Modes(c) == {SplitOnce(c, u) : u \in 0 .. Pow2(UniformBits) - 1}

\* The outcomes of the random draws of one round: the axis, the slot, the
\* mode (once: a binary split) and the split point or the number of pieces.
Draws(c, spaces, mask) ==
    UNION { UNION { UNION {
        { [axis |-> axis, item_id |-> item_id, once |-> once, val |-> val] :
            val \in IF once
                    THEN SplitOnceRange(c, spaces[item_id], axis,
                             get_axis_value(spaces[item_id], axis, 2)
                             - get_axis_value(spaces[item_id], axis, 1))
                    ELSE NumSplitRange(c) } :
        once \in Modes(c) } :
        item_id \in Choice(Weights(axis, spaces, mask)) } :
        axis \in Axes }

\* _split_along_axis for the draws d.
SplitAlongAxis(c, axis, spaces, mask, d) ==
    LET item_space == spaces[d.item_id]
        item_axis_1 == get_axis_value(item_space, axis, 1)
        item_axis_2 == get_axis_value(item_space, axis, 2)
        axis_len == item_axis_2 - item_axis_1
    IN  IF d.once
        THEN SplitItemOnce(item_space, axis, axis_len, d.item_id, spaces, mask, d.val)
        ELSE SplitItemMultipleTimes(item_space, axis, axis_len, d.item_id, spaces,
                                    mask, d.val)

\* Mutant of the removal of empty items: the mask is left as it is.
RemoveEmptyNothing(spaces, mask) == mask

\* The removal of empty items at the end of _split_space_into_sub_spaces.
RemoveEmpty(spaces, mask) ==
    [i \in DOMAIN mask |-> mask[i] /\ ~is_empty(spaces[i])]

\* _split_space_into_sub_spaces for the draws d.
SplitSpaceIntoSubSpaces(c, spaces, mask, d) ==
    CHOOSE result \in
        { [r EXCEPT !.mask = RemoveEmpty(r.spaces, r.mask)] :
          r \in {SplitAlongAxis(c, d.axis, spaces, mask, d)} } : TRUE

\* ------------------------------------------------------------------ keys
\* Mutant of body_fun: the loop key is not replaced by its first sub-key.
BodyFunKeysNotAdvanced(k) ==
    LET ks == SplitKey(k, 2) IN [key |-> k, subkey |-> ks[1]]

\* body_fun: key, subkey = jax.random.split(key)
BodyFunKeys(k) ==
    LET ks == SplitKey(k, 2) IN [key |-> ks[0], subkey |-> ks[1]]

\* _split_space_into_sub_spaces: axis_key, split_key = jax.random.split(key)
SubSpacesKeys(k) ==
    LET ks == SplitKey(k, 2) IN [axis_key |-> ks[0], split_key |-> ks[1]]

\* _split_along_axis: item_key, split_key, mode_key = jax.random.split(key, 3)
AlongAxisKeys(k) ==
    LET ks == SplitKey(k, 3)
    IN  [item_key |-> ks[0], split_key |-> ks[1], mode_key |-> ks[2]]

\* The uses of keys made by one round entered with loop key k, in program
\* order.  Both split modes draw once from the inner split_key.
RoundKeyLog(k) ==
    LET b == BodyFunKeys(k)
        s == SubSpacesKeys(b.subkey)
        a == AlongAxisKeys(s.split_key)
    IN  << Use(k, "split"), Use(b.subkey, "split"), Use(s.axis_key, "axis"),
           Use(s.split_key, "split"), Use(a.item_key, "item"),
           Use(a.mode_key, "mode"), Use(a.split_key, "point") >>

\* ------------------------------------------------------ records and reset
\* Mutant of _generate_solved_instance: every slot is marked placed.
SolvedInstanceAllPlaced(c, spaces, mask, skey) ==
    LET container == make_container(c.container_dims)
    IN  [container |-> container,
         ems |-> [i \in 0 .. c.max_num_ems - 1 |->
                     IF i = 0 THEN container ELSE empty_ems],
         ems_mask |-> [i \in 0 .. c.max_num_ems - 1 |-> FALSE],
         items |-> [i \in DOMAIN spaces |-> item_from_space(spaces[i])],
         items_mask |-> mask,
         items_placed |-> [i \in DOMAIN mask |-> TRUE],
         items_location |-> [i \in DOMAIN spaces |-> location_from_space(spaces[i])],
         sorted_ems_indexes |-> [i \in 0 .. c.max_num_ems - 1 |-> i],
         key |-> skey]

\* The State built by RandomInstanceGenerator._generate_solved_instance.
SolvedInstance(c, spaces, mask, skey) ==
    LET container == make_container(c.container_dims)
    IN  [container |-> container,
         ems |-> [i \in 0 .. c.max_num_ems - 1 |->
                     IF i = 0 THEN container ELSE empty_ems],
         ems_mask |-> [i \in 0 .. c.max_num_ems - 1 |-> FALSE],
         items |-> [i \in DOMAIN spaces |-> item_from_space(spaces[i])],
         items_mask |-> mask,
         items_placed |-> mask,
         items_location |-> [i \in DOMAIN spaces |-> location_from_space(spaces[i])],
         sorted_ems_indexes |-> [i \in 0 .. c.max_num_ems - 1 |-> i],
         key |-> skey]

\* Mutant of _unpack_items: the item locations are not zeroed.
unpack_items_keep_location(c, h, ref) ==
    LET s1 == [h EXCEPT ![ref].ems_mask =
                   [i \in 0 .. c.max_num_ems - 1 |-> i = 0]]
        s2 == [s1 EXCEPT ![ref].items_placed =
                   [i \in 0 .. c.max_num_items - 1 |-> FALSE]]
    IN  [heap |-> s2, ref |-> ref]

\* InstanceGenerator._unpack_items on the object h[ref]: the three attribute
\* assignments act on the object passed in, and that same object is returned.
unpack_items(c, h, ref) ==
    LET s1 == [h EXCEPT ![ref].ems_mask =
                   [i \in 0 .. c.max_num_ems - 1 |-> i = 0]]
        s2 == [s1 EXCEPT ![ref].items_placed =
                   [i \in 0 .. c.max_num_items - 1 |-> FALSE]]
        s3 == [s2 EXCEPT ![ref].items_location =
                   [i \in 0 .. c.max_num_items - 1 |-> [x |-> 0, y |-> 0, z |-> 0]]]
    IN  [heap |-> s3, ref |-> ref]

\* ------------------------------------------- deterministic generators: data
TWENTY_FOOT_DIMS == <<5870, 2330, 2200>>

CSV_COLUMNS == <<"Product_Name", "Length", "Width", "Height", "Quantity">>

\* jax.random.PRNGKey(seed)
PRNGKey(seed) == <<"PRNGKey", seed>>

\* The keys handed to the deterministic generators by their callers.
Keys == {PRNGKey(0), PRNGKey(1)}

\* str(n) of an integer, as written by csv.writer and by the f-string of
\* save_instance_to_csv.
Digit == <<"0", "1", "2", "3", "4", "5", "6", "7", "8", "9">>

RECURSIVE StrNat(_)
StrNat(n) == IF n < 10 THEN Digit[n + 1] ELSE StrNat(n \div 10) \o Digit[(n % 10) + 1]

Str(n) == IF n < 0 THEN "-" \o StrNat(0 - n) ELSE StrNat(n)

\* int(cell) of a cell of characters up to code 255: blanks around the
\* number are dropped, one sign may come first, and the rest is decimal
\* digits, with single underscores allowed between two digits.  The blanks
\* are the space, the tab, the line feed, the carriage return, the form
\* feed, the vertical tab (code 11), the next-line character (code 133) and
\* the no-break space (code 160); the last three are written as themselves.
Whitespace == {" ", "\t", "\n", "\r", "\f", "", "", " "}

DigitChars == {Digit[d] : d \in DOMAIN Digit}

DigitValue(ch) == CHOOSE d \in 0 .. 9 : Digit[d + 1] = ch

CharAt(cell, i) == SubSeq(cell, i, i)

RECURSIVE StripLeft(_)
StripLeft(cell) ==
    IF Len(cell) > 0 /\ Head(cell) \in Whitespace THEN StripLeft(Tail(cell)) ELSE cell

RECURSIVE StripRight(_)
StripRight(cell) ==
    IF Len(cell) > 0 /\ CharAt(cell, Len(cell)) \in Whitespace
    THEN StripRight(SubSeq(cell, 1, Len(cell) - 1))
    ELSE cell

Strip(cell) == StripRight(StripLeft(cell))

Unsigned(text) ==
    IF Len(text) > 0 /\ Head(text) \in {"+", "-"} THEN Tail(text) ELSE text

WellFormedDigits(body) ==
    /\ Len(body) > 0
    /\ Head(body) \in DigitChars
    /\ CharAt(body, Len(body)) \in DigitChars
    /\ \A i \in 1 .. Len(body) :
          /\ CharAt(body, i) \in DigitChars \cup {"_"}
          /\ (i < Len(body) /\ CharAt(body, i) = "_") => CharAt(body, i + 1) # "_"

RECURSIVE Decimal(_, _)
Decimal(body, acc) ==
    IF Len(body) = 0 THEN acc
    ELSE IF Head(body) = "_" THEN Decimal(Tail(body), acc)
    ELSE Decimal(Tail(body), 10 * acc + DigitValue(Head(body)))

\* int(cell): the set is empty when int() raises ValueError.
IntValues(cell) ==
    LET text == Strip(cell)
        body == Unsigned(text)
    IN  IF WellFormedDigits(body)
        THEN {IF Head(text) = "-" THEN 0 - Decimal(body, 0) ELSE Decimal(body, 0)}
        ELSE {}

\* int(cell) of a cell int() reads.
ParseInt(cell) == CHOOSE n \in IntValues(cell) : TRUE

\* quantity * [item]: the list repeated, empty when quantity <= 0.
Repeat(item, quantity) == [i \in 1 .. quantity |-> item]

\* An array (indexed from 0) of the elements of a list.
ArrayOf(list) == [i \in 0 .. Len(list) - 1 |-> list[i + 1]]

\* ------------------------------------------------- ToyInstanceGenerator
ToyConfig == [max_num_items |-> 20, max_num_ems |-> 80, container_dims |-> TWENTY_FOOT_DIMS]

ToyXLen == <<2445, 3083, 1950, 3425, 3083, 2787, 3425, 2787, 2787, 3425,
             3083, 2787, 1295, 2787, 3083, 3425, 3425, 837, 1150, 3425>>
ToyYLen == <<1306, 1429, 1301, 321, 1165, 2330, 291, 1504, 826, 466,
             901, 1029, 1024, 2330, 1165, 466, 663, 1301, 1024, 589>>
ToyZLen == <<1022, 549, 700, 1022, 629, 200, 1022, 157, 157, 363,
             549, 700, 1022, 121, 629, 659, 1022, 700, 1022, 1022>>
ToyX == <<0, 0, 3083, 2445, 0, 3083, 2445, 3083, 3083, 2445,
          0, 3083, 0, 3083, 0, 2445, 2445, 5033, 1295, 2445>>
\* Mutant of the table of y locations: the last item is placed one
\* millimeter lower.
ToyYShifted == <<0, 0, 0, 0, 0, 0, 910, 0, 1504, 1864,
                 1429, 1301, 1306, 0, 1165, 1864, 1201, 0, 1306, 320>>
ToyY == <<0, 0, 0, 0, 0, 0, 910, 0, 1504, 1864,
          1429, 1301, 1306, 0, 1165, 1864, 1201, 0, 1306, 321>>
ToyZ == <<0, 1022, 1022, 0, 1571, 1722, 0, 2043, 2043, 0,
          1022, 1022, 0, 1922, 1571, 363, 0, 1022, 0, 0>>

\* ToyInstanceGenerator._generate_solved_instance
toy_generate_solved_instance(c) ==
    LET container == make_container(c.container_dims)
    IN  [container |-> container,
         ems |-> [i \in 0 .. c.max_num_ems - 1 |->
                     IF i = 0 THEN container ELSE empty_ems],
         ems_mask |-> [i \in 0 .. c.max_num_ems - 1 |-> FALSE],
         items |-> [i \in 0 .. c.max_num_items - 1 |->
                       [x_len |-> ToyXLen[i + 1], y_len |-> ToyYLen[i + 1],
                        z_len |-> ToyZLen[i + 1]]],
         items_mask |-> [i \in 0 .. c.max_num_items - 1 |-> TRUE],
         items_placed |-> [i \in 0 .. c.max_num_items - 1 |-> TRUE],
         items_location |-> [i \in 0 .. c.max_num_items - 1 |->
                       [x |-> ToyX[i + 1], y |-> ToyY[i + 1], z |-> ToyZ[i + 1]]],
         sorted_ems_indexes |-> [i \in 0 .. c.max_num_ems - 1 |-> i],
         key |-> PRNGKey(0)]

\* Mutant of ToyInstanceGenerator.generate_solution: the key passed in is
\* stored in the record.
toy_generate_solution_keyed(c, h, k) ==
    [heap |-> Append(h, [toy_generate_solved_instance(c) EXCEPT !.key = k]),
     ref |-> Len(h) + 1]

\* ToyInstanceGenerator.generate_solution(key): the key is deleted and the
\* solved instance, a new object, is returned.
toy_generate_solution(c, h, k) ==
    [heap |-> Append(h, toy_generate_solved_instance(c)), ref |-> Len(h) + 1]

\* ToyInstanceGenerator.__call__(key): the key is deleted, the solved
\* instance is built and unpacked.
toy_call(c, h, k) ==
    unpack_items(c, Append(h, toy_generate_solved_instance(c)), Len(h) + 1)

\* ------------------------------------------------- CSVInstanceGenerator
\* The exception raised by the conversion of a data row: the cells are
\* taken from left to right, row[0], int(row[1]), ..., int(row[4]); a
\* missing cell raises IndexError and a cell int() cannot read raises
\* ValueError; "" when the row is converted.
RowError(row) ==
    LET failing == {j \in 1 .. 5 : j > Len(row) \/ (j >= 2 /\ IntValues(row[j]) = {})}
    IN  IF failing = {} THEN ""
        ELSE LET first == CHOOSE j \in failing : \A k \in failing : j <= k
             IN  IF first > Len(row) THEN "IndexError" ELSE "ValueError"

\* The converted data row.
ConvertRow(row) ==
    <<row[1], ParseInt(row[2]), ParseInt(row[3]), ParseInt(row[4]), ParseInt(row[5])>>

\* The first row from row i on whose conversion raises, 0 when there is none.
RECURSIVE FirstBadRow(_, _)
FirstBadRow(file, i) ==
    IF i > Len(file) THEN 0
    ELSE IF RowError(file[i]) # "" THEN i
    ELSE FirstBadRow(file, i + 1)

\* Mutant of _read_csv: only the number of columns of the header is checked.
read_csv_count_only(file) ==
    IF Len(file) = 0 THEN [err |-> "", rows |-> <<>>]
    ELSE IF Len(file[1]) # Len(CSV_COLUMNS)
    THEN [err |-> "Got wrong number of columns", rows |-> <<>>]
    ELSE LET bad == FirstBadRow(file, 2)
         IN  IF bad = 0
             THEN [err |-> "",
                   rows |-> [i \in 1 .. Len(file) - 1 |-> ConvertRow(file[i + 1])]]
             ELSE [err |-> RowError(file[bad]), rows |-> <<>>]

\* CSVInstanceGenerator._read_csv: err is the exception raised, "" when the
\* rows are returned.  The header is row 0 of the reader; a file without
\* any row is read as no rows.
read_csv(file) ==
    IF Len(file) = 0 THEN [err |-> "", rows |-> <<>>]
    ELSE IF Len(file[1]) # Len(CSV_COLUMNS)
    THEN [err |-> "Got wrong number of columns", rows |-> <<>>]
    ELSE IF file[1] # CSV_COLUMNS
    THEN [err |-> "Columns in wrong order", rows |-> <<>>]
    ELSE LET bad == FirstBadRow(file, 2)
         IN  IF bad = 0
             THEN [err |-> "",
                   rows |-> [i \in 1 .. Len(file) - 1 |-> ConvertRow(file[i + 1])]]
             ELSE [err |-> RowError(file[bad]), rows |-> <<>>]

\* Mutant of _generate_list_of_items: one item per row, whatever its quantity.
RECURSIVE generate_list_of_items_single(_)
generate_list_of_items_single(rows) ==
    IF rows = <<>> THEN <<>>
    ELSE LET row == Head(rows)
             item == [x_len |-> row[2], y_len |-> row[3], z_len |-> row[4]]
         IN  <<item>> \o generate_list_of_items_single(Tail(rows))

\* CSVInstanceGenerator._generate_list_of_items
RECURSIVE generate_list_of_items(_)
generate_list_of_items(rows) ==
    IF rows = <<>> THEN <<>>
    ELSE LET row == Head(rows)
             item == [x_len |-> row[2], y_len |-> row[3], z_len |-> row[4]]
         IN  Repeat(item, row[5]) \o generate_list_of_items(Tail(rows))

\* CSVInstanceGenerator._parse_csv_file: err is the exception raised, ""
\* when the State is returned.  tree_transpose of an empty list of items
\* raises.
parse_csv_file(file, max_num_ems, container_dims) ==
    LET container == make_container(container_dims)
        read == read_csv(file)
        list_of_items == generate_list_of_items(read.rows)
        num_items == Len(list_of_items)
    IN  IF read.err # "" THEN [err |-> read.err, state |-> <<>>]
        ELSE IF num_items = 0 THEN [err |-> "TypeError", state |-> <<>>]
        ELSE [err |-> "",
              state |->
                [container |-> container,
                 ems |-> [i \in 0 .. max_num_ems - 1 |->
                             IF i = 0 THEN container ELSE empty_ems],
                 ems_mask |-> [i \in 0 .. max_num_ems - 1 |-> i = 0],
                 items |-> ArrayOf(list_of_items),
                 items_mask |-> [i \in 0 .. num_items - 1 |-> TRUE],
                 items_placed |-> [i \in 0 .. num_items - 1 |-> FALSE],
                 items_location |-> [i \in 0 .. num_items - 1 |->
                                        [x |-> 0, y |-> 0, z |-> 0]],
                 sorted_ems_indexes |-> [i \in 0 .. max_num_ems - 1 |-> i],
                 key |-> PRNGKey(0)]]

\* CSVInstanceGenerator.__call__(key): the key is deleted and the stored
\* instance is returned.
csv_call(h, ref, k) == [heap |-> h, ref |-> ref]

\* ------------------------------------------------- save_instance_to_csv
\* The (x_len, y_len, z_len) tuples of the items from index i on that are
\* mask-true and have positive extents, in index order.
RECURSIVE KeptItems(_, _)
KeptItems(st, i) ==
    IF i \notin DOMAIN st.items_mask THEN <<>>
    ELSE LET item == <<st.items[i].x_len, st.items[i].y_len, st.items[i].z_len>>
         IN  (IF st.items_mask[i] /\ \A n \in 1 .. 3 : item[n] > 0
              THEN <<item>> ELSE <<>>) \o KeptItems(st, i + 1)

\* Mutant of the grouping of save_instance_to_csv: the occurrences are not
\* counted.
RECURSIVE CounterItemsOnce(_, _)
CounterItemsOnce(items, seen) ==
    IF items = <<>> THEN <<>>
    ELSE LET item == Head(items)
         IN  IF item \in seen THEN CounterItemsOnce(Tail(items), seen)
             ELSE << <<item, 1>> >> \o CounterItemsOnce(Tail(items), seen \cup {item})

\* list(collections.Counter(items).items()): the distinct elements in order
\* of first occurrence, each with its number of occurrences.
RECURSIVE CounterItems(_, _)
CounterItems(items, seen) ==
    IF items = <<>> THEN <<>>
    ELSE LET item == Head(items)
         IN  IF item \in seen THEN CounterItems(Tail(items), seen)
             ELSE << <<item, Cardinality({n \in 1 .. Len(items) : items[n] = item})>> >>
                  \o CounterItems(Tail(items), seen \cup {item})

\* grouped_items.sort(key=operator.itemgetter(1), reverse=True): a stable
\* sort by decreasing count (groups of equal count keep their order).
RECURSIVE SortByCount(_)
SortByCount(groups) ==
    IF groups = <<>> THEN <<>>
    ELSE LET best == CHOOSE n \in 1 .. Len(groups) :
                         /\ \A m \in 1 .. Len(groups) : groups[m][2] <= groups[n][2]
                         /\ \A m \in 1 .. n - 1 : groups[m][2] < groups[n][2]
             rest == [m \in 1 .. Len(groups) - 1 |->
                         IF m < best THEN groups[m] ELSE groups[m + 1]]
         IN  <<groups[best]>> \o SortByCount(rest)

\* Mutant of save_instance_to_csv: the items mask is not consulted.
save_instance_to_csv_unmasked(st) ==
    LET all == [st EXCEPT !.items_mask = [i \in DOMAIN st.items_mask |-> TRUE]]
        grouped_items == SortByCount(CounterItems(KeptItems(all, 0), {}))
    IN  <<CSV_COLUMNS>> \o
        [i \in 1 .. Len(grouped_items) |->
            <<"shape_" \o Str(i), Str(grouped_items[i][1][1]),
              Str(grouped_items[i][1][2]), Str(grouped_items[i][1][3]),
              Str(grouped_items[i][2])>>]

\* save_instance_to_csv: the file written at path.
save_instance_to_csv(st) ==
    LET grouped_items == SortByCount(CounterItems(KeptItems(st, 0), {}))
    IN  <<CSV_COLUMNS>> \o
        [i \in 1 .. Len(grouped_items) |->
            <<"shape_" \o Str(i), Str(grouped_items[i][1][1]),
              Str(grouped_items[i][1][2]), Str(grouped_items[i][1][3]),
              Str(grouped_items[i][2])>>]

\* ------------------------------------ deterministic generators: inputs
MaxRows == 2
MaxQuantity == 2
MaxCsvLength == 2
MaxCalls == 2

\* The (Length, Width, Height) cells of the well-formed data rows.
CsvTriples ==
    {<<Str(l), "1", "1">> : l \in 1 .. MaxCsvLength} \cup {<<"1", "2", "1">>}

\* Data rows with positive dimensions and quantity.
ValidRows ==
    {<<"a", t[1], t[2], t[3], Str(q)>> : t \in CsvTriples, q \in 1 .. MaxQuantity}

\* Other data rows: a zero length, a zero and a negative quantity, numbers
\* not in canonical form (the last one with a no-break space, a next-line
\* character and a vertical tab around the digits), a cell that is not a
\* number, a missing column, a cell that is not a number before a missing
\* column, and an additional column.
OddRows ==
    { <<"a", "0", "1", "1", "1">>, <<"a", "1", "1", "1", "0">>,
      <<"a", "1", "1", "1", "-1">>, <<"a", "01", "+1", "1", " 2">>,
      <<"a", "1 ", "0_1", " 1", "2">>,
      <<"a", "x", "1", "1", "1">>, <<"a", "1", "1">>, <<"a", "x", "1">>,
      <<"a", "1", "1", "1", "1", "b">> }

\* The sequences of at most n data rows.
DataParts(n) ==
    UNION { [1 .. m -> ValidRows \cup OddRows] : m \in 0 .. n }

\* Header rows that are not the schema: an empty row, a missing column, an
\* additional column, two columns exchanged, a name in lower case.
WrongHeaders ==
    { <<>>,
      <<"Product_Name", "Length", "Width", "Height">>,
      <<"Product_Name", "Length", "Width", "Height", "Quantity", "Weight">>,
      <<"Product_Name", "Width", "Length", "Height", "Quantity">>,
      <<"product_name", "Length", "Width", "Height", "Quantity">> }

\* The example file of the docstrings.
ExampleFile ==
    << CSV_COLUMNS,
       <<"shape_1", "1080", "760", "300", "5">>,
       <<"shape_2", "1100", "430", "250", "3">> >>

\* The modelled files at csv_path.
Files ==
    {<<>>, ExampleFile}
    \cup {<<CSV_COLUMNS>> \o d : d \in DataParts(MaxRows)}
    \cup {<<h>> \o d : h \in WrongHeaders, d \in DataParts(1)}

\* Constructor arguments of CSVInstanceGenerator other than csv_path.
CsvConfig == [max_num_ems |-> MaxNumEms, container_dims |-> TWENTY_FOOT_DIMS]

\* States handed to save_instance_to_csv directly: three slots, each with a
\* mask bit and one of three items, one of them with a zero extent.
GivenStates ==
    LET items == {[x_len |-> 1, y_len |-> 1, z_len |-> 1],
                  [x_len |-> 2, y_len |-> 1, z_len |-> 1],
                  [x_len |-> 0, y_len |-> 1, z_len |-> 1]}
        container == make_container(CsvConfig.container_dims)
    IN  { [container |-> container,
           ems |-> [i \in 0 .. CsvConfig.max_num_ems - 1 |->
                       IF i = 0 THEN container ELSE empty_ems],
           ems_mask |-> [i \in 0 .. CsvConfig.max_num_ems - 1 |-> i = 0],
           items |-> it,
           items_mask |-> mask,
           items_placed |-> [i \in 0 .. 2 |-> FALSE],
           items_location |-> [i \in 0 .. 2 |-> [x |-> 0, y |-> 0, z |-> 0]],
           sorted_ems_indexes |-> [i \in 0 .. CsvConfig.max_num_ems - 1 |-> i],
           key |-> PRNGKey(0)] :
          it \in [0 .. 2 -> items], mask \in [0 .. 2 -> BOOLEAN] }

\* ---------------------------------------------------------------- actions
\* The state before the first call, for any constructor arguments.
Idle ==
    /\ pc = "init"
    /\ items_spaces = <<>>
    /\ items_mask = <<>>
    /\ key = <<>>
    /\ state_key = <<>>
    /\ keyLog = <<>>
    /\ nrounds = 0
    /\ heap = <<>>
    /\ solution = 0
    /\ state = 0
    /\ solved0 = <<>>
    /\ gen = "random"
    /\ csv_file = <<>>
    /\ instance_from_csv = 0
    /\ error = ""
    /\ out_file = <<>>
    /\ reloaded = <<>>
    /\ calls = <<>>

\* The state after RandomInstanceGenerator.__init__.
Init ==
    /\ cfg \in Configs
    /\ Idle

\* Entry of _generate_solved_instance and of
\* _split_container_into_items_spaces: the top key is split and the loop
\* carry is initialised with every slot equal to the container.
Start ==
    /\ pc = "init"
    /\ LET ks == SplitKey(key, 2)
       IN  /\ state_key' = ks[0]
           /\ key' = ks[1]
           /\ keyLog' = <<Use(key, "split")>>
    /\ items_spaces' = [i \in Slots(cfg) |-> make_container(cfg.container_dims)]
    /\ items_mask' = [i \in Slots(cfg) |-> i = 0]
    /\ pc' = "loop"
    /\ UNCHANGED <<cfg, nrounds, heap, solution, state, solved0>>
    /\ UNCHANGED detVars

\* One iteration of the while_loop: body_fun.  Every round replaces the
\* loop key by its first sub-key and uses seven keys; runs are followed for
\* at most MaxRounds rounds.
BodyFun ==
    /\ pc = "loop"
    /\ cond_fun(cfg, items_mask)
    /\ nrounds < MaxRounds
    /\ \E d \in Draws(cfg, items_spaces, items_mask) :
          \E r \in {SplitSpaceIntoSubSpaces(cfg, items_spaces, items_mask, d)} :
              /\ items_spaces' = r.spaces
              /\ items_mask' = r.mask
    /\ key' = BodyFunKeys(key).key
    /\ keyLog' = keyLog \o RoundKeyLog(key)
    /\ nrounds' = nrounds + 1
    /\ UNCHANGED <<cfg, pc, state_key, heap, solution, state, solved0>>
    /\ UNCHANGED detVars

\* Exit of the while_loop and the rest of _generate_solved_instance: the
\* solved State is built and returned (generate_solution returns it as is).
GenerateSolvedInstance ==
    /\ pc = "loop"
    /\ ~cond_fun(cfg, items_mask)
    /\ LET rec == SolvedInstance(cfg, items_spaces, items_mask, state_key)
       IN  /\ heap' = Append(heap, rec)
           /\ solution' = Len(heap) + 1
           /\ solved0' = rec
    /\ pc' = "solved"
    /\ UNCHANGED <<cfg, items_spaces, items_mask, key, state_key, keyLog, nrounds,
                   state>>
    /\ UNCHANGED detVars

\* The second half of __call__: state = self._unpack_items(solution).
UnpackItems ==
    /\ pc = "solved"
    /\ LET r == unpack_items(cfg, heap, solution)
       IN  /\ heap' = r.heap
           /\ state' = r.ref
    /\ pc' = "reset"
    /\ UNCHANGED <<cfg, items_spaces, items_mask, key, state_key, keyLog, nrounds,
                   solution, solved0>>
    /\ UNCHANGED detVars

Next == Start \/ BodyFun \/ GenerateSolvedInstance \/ UnpackItems

Spec == Init /\ [][Next]_vars

\* The loop is at its test and cond_fun holds: body_fun runs once more.
CanRound == pc = "loop" /\ cond_fun(cfg, items_mask)

\* Some outcome of the draws of the next round adds an item.
CanGrow ==
    /\ CanRound
    /\ \E d \in Draws(cfg, items_spaces, items_mask) :
          Count(SplitSpaceIntoSubSpaces(cfg, items_spaces, items_mask, d).mask)
              > Count(items_mask)

\* The random generator with the default split_eps and with both split
\* modes possible (prob_split_one_item = 0.5): the configurations in which
\* every split can be drawn.
SplitInit ==
    /\ Init
    /\ cfg.split_eps = <<3, 10>>
    /\ cfg.prob_split_one_item = <<1, 1>>

SplitSpec == SplitInit /\ [][Next]_vars

\* The random generator with every round a binary split
\* (prob_split_one_item = 1.0), split_eps over the default, 0.49 and
\* 0.49999999, and one longer container: the specification of the claims on
\* the binary split range.
RangeConfigs ==
    [container_dims : RangeDims,
     max_num_items : 1 .. MaxNumItems,
     max_num_ems : {MaxNumEms},
     split_eps : RangeEpsValues,
     prob_split_one_item : {<<1, 0>>},
     split_num_same_items : 1 .. MaxSplitSame]

RangeInit ==
    /\ cfg \in RangeConfigs
    /\ Idle

RangeSpec == RangeInit /\ [][Next]_vars

\* Container lengths that float32 does not hold exactly (2^24 + 1, 2^24 + 3
\* and 2^25 + 2) and one whose int32 products with a loop index wrap around
\* (2^30), with unit width and height.
LargeDims ==
    {<<16777217, 1, 1>>, <<16777219, 1, 1>>, <<33554434, 1, 1>>,
     <<1073741824, 1, 1>>}

\* The random generator on the large containers with every round a split
\* into identical pieces (prob_split_one_item = 0.0): the specification of
\* the float32 and int32 arithmetic of _split_item_multiple_times.
LargeConfigs ==
    [container_dims : LargeDims,
     max_num_items : 1 .. MaxNumItems,
     max_num_ems : {MaxNumEms},
     split_eps : {<<3, 10>>},
     prob_split_one_item : {<<0, 0>>},
     split_num_same_items : 1 .. MaxSplitSame]

LargeInit ==
    /\ cfg \in LargeConfigs
    /\ Idle

LargeSpec == LargeInit /\ [][Next]_vars

\* ----------------------------------- deterministic generators: actions
\* The variables of the random generator, not used by the other generators.
randVars == <<items_spaces, items_mask, key, state_key, keyLog, nrounds,
              solution, state, solved0>>

\* A ToyInstanceGenerator after construction, a CSVInstanceGenerator about
\* to be constructed on a file, or a State about to be saved.
DetInit ==
    /\ items_spaces = <<>>
    /\ items_mask = <<>>
    /\ key = <<>>
    /\ state_key = <<>>
    /\ keyLog = <<>>
    /\ nrounds = 0
    /\ solution = 0
    /\ state = 0
    /\ solved0 = <<>>
    /\ error = ""
    /\ out_file = <<>>
    /\ reloaded = <<>>
    /\ calls = <<>>
    /\ \/ /\ gen = "toy"
          /\ cfg = ToyConfig
          /\ pc = "ready"
          /\ csv_file = <<>>
          /\ heap = <<>>
          /\ instance_from_csv = 0
       \/ /\ gen = "csv"
          /\ cfg = CsvConfig
          /\ pc = "init"
          /\ csv_file \in Files
          /\ heap = <<>>
          /\ instance_from_csv = 0
       \/ /\ gen = "state"
          /\ cfg = CsvConfig
          /\ pc = "ready"
          /\ csv_file = <<>>
          /\ heap \in {<<st>> : st \in GivenStates}
          /\ instance_from_csv = 1

\* CSVInstanceGenerator.__init__: the file is parsed; max_num_items is the
\* size of the items mask of the parsed instance.
CsvConstruct ==
    /\ gen = "csv"
    /\ pc = "init"
    /\ \E r \in {parse_csv_file(csv_file, cfg.max_num_ems, cfg.container_dims)} :
          IF r.err # ""
          THEN /\ pc' = "error"
               /\ error' = r.err
               /\ UNCHANGED <<cfg, heap, instance_from_csv>>
          ELSE /\ pc' = "ready"
               /\ heap' = <<r.state>>
               /\ instance_from_csv' = 1
               /\ cfg' = [max_num_items |-> Cardinality(DOMAIN r.state.items_mask),
                          max_num_ems |-> cfg.max_num_ems,
                          container_dims |-> cfg.container_dims]
               /\ UNCHANGED error
    /\ UNCHANGED <<gen, csv_file, out_file, reloaded, calls>>
    /\ UNCHANGED randVars

\* CSVInstanceGenerator.__call__(key)
CsvCall ==
    /\ gen = "csv"
    /\ pc = "ready"
    /\ Len(calls) < MaxCalls
    /\ \E k \in Keys :
          \E r \in {csv_call(heap, instance_from_csv, k)} :
              /\ heap' = r.heap
              /\ calls' = Append(calls, [op |-> "call", key |-> k, ref |-> r.ref])
    /\ UNCHANGED <<cfg, pc, gen, csv_file, instance_from_csv, error, out_file, reloaded>>
    /\ UNCHANGED randVars

\* ToyInstanceGenerator.__call__(key)
ToyCall ==
    /\ gen = "toy"
    /\ Len(calls) < MaxCalls
    /\ \E k \in Keys :
          \E r \in {toy_call(cfg, heap, k)} :
              /\ heap' = r.heap
              /\ calls' = Append(calls, [op |-> "call", key |-> k, ref |-> r.ref])
    /\ UNCHANGED <<cfg, pc, gen, csv_file, instance_from_csv, error, out_file, reloaded>>
    /\ UNCHANGED randVars

\* ToyInstanceGenerator.generate_solution(key)
ToyGenerateSolution ==
    /\ gen = "toy"
    /\ Len(calls) < MaxCalls
    /\ \E k \in Keys :
          \E r \in {toy_generate_solution(cfg, heap, k)} :
              /\ heap' = r.heap
              /\ calls' = Append(calls, [op |-> "generate_solution", key |-> k,
                                         ref |-> r.ref])
    /\ UNCHANGED <<cfg, pc, gen, csv_file, instance_from_csv, error, out_file, reloaded>>
    /\ UNCHANGED randVars

\* save_instance_to_csv(state, path) on the instance of the CSV generator as
\* constructed, or on the State at hand.
SaveInstanceToCsv ==
    /\ gen \in {"csv", "state"}
    /\ pc = "ready"
    /\ calls = <<>>
    /\ out_file' = save_instance_to_csv(heap[instance_from_csv])
    /\ pc' = "saved"
    /\ UNCHANGED <<cfg, heap, gen, csv_file, instance_from_csv, error, reloaded, calls>>
    /\ UNCHANGED randVars

\* CSVInstanceGenerator.__init__ on the file written by save_instance_to_csv.
CsvReload ==
    /\ pc = "saved"
    /\ reloaded' = parse_csv_file(out_file, cfg.max_num_ems, cfg.container_dims)
    /\ pc' = "reloaded"
    /\ UNCHANGED <<cfg, heap, gen, csv_file, instance_from_csv, error, out_file, calls>>
    /\ UNCHANGED randVars

DetNext ==
    \/ CsvConstruct
    \/ CsvCall
    \/ ToyCall
    \/ ToyGenerateSolution
    \/ SaveInstanceToCsv
    \/ CsvReload

DetSpec == DetInit /\ [][DetNext]_vars

\* ------------------------------------------------------------ properties
Live == {i \in DOMAIN items_mask : items_mask[i]}

Volume(space) ==
    (space.x2 - space.x1) * (space.y2 - space.y1) * (space.z2 - space.z1)

RECURSIVE SumVolumes(_)
SumVolumes(S) ==
    IF S = {} THEN 0
    ELSE LET i == CHOOSE j \in S : TRUE
         IN  Volume(items_spaces[i]) + SumVolumes(S \ {i})

Within(space, dims) ==
    /\ 0 <= space.x1 /\ space.x1 <= space.x2 /\ space.x2 <= dims[1]
    /\ 0 <= space.y1 /\ space.y1 <= space.y2 /\ space.y2 <= dims[2]
    /\ 0 <= space.z1 /\ space.z1 <= space.z2 /\ space.z2 <= dims[3]

Disjoint(s, t) ==
    \/ s.x2 <= t.x1 \/ t.x2 <= s.x1
    \/ s.y2 <= t.y1 \/ t.y2 <= s.y1
    \/ s.z2 <= t.z1 \/ t.z2 <= s.z1

\* The stop target of the splitting loop.
Target == cfg.max_num_items - cfg.split_num_same_items + 1

ContainerVolume ==
    cfg.container_dims[1] * cfg.container_dims[2] * cfg.container_dims[3]

\* C1 as stated: from the start of the loop on, after every round and at
\* termination, for every valid configuration, the mask-true slots lie
\* within the container, are pairwise non-overlapping and their volumes sum
\* to the container volume.
TilingInvariant ==
    pc # "init" =>
        /\ \A i \in Live : Within(items_spaces[i], cfg.container_dims)
        /\ \A i \in Live : \A j \in Live :
              i # j => Disjoint(items_spaces[i], items_spaces[j])
        /\ SumVolumes(Live) = ContainerVolume

\* C2: the live count never exceeds max_num_items, and in every state in
\* which a round runs, whatever the draws, every allocation of the round
\* finds a mask-false slot and the count stays within max_num_items during
\* the round.
CapacityMargin ==
    pc # "init" =>
        /\ Count(items_mask) <= cfg.max_num_items
        /\ (pc = "loop" /\ cond_fun(cfg, items_mask)) =>
              \A d \in Draws(cfg, items_spaces, items_mask) :
                  LET r == SplitAlongAxis(cfg, d.axis, items_spaces, items_mask, d)
                  IN  r.free /\ r.peak <= cfg.max_num_items

\* After at least one round, a multi-split with two allocations is about to
\* take the last free slots but one.
CapacityWitness ==
    /\ pc = "loop"
    /\ nrounds >= 1
    /\ cond_fun(cfg, items_mask)
    /\ \E d \in Draws(cfg, items_spaces, items_mask) :
          LET r == SplitAlongAxis(cfg, d.axis, items_spaces, items_mask, d)
          IN  ~d.once /\ Len(r.allocs) = 2 /\ r.peak = cfg.max_num_items - 1

\* C4: a round runs only when the live count is below the target, the loop
\* is left only when it is not, and the record then produced has at least
\* target mask-true items (exactly one when no round ran).
StopCondition ==
    [][ /\ (pc = "loop" /\ pc' = "loop") => Count(items_mask) < Target
        /\ (pc = "loop" /\ pc' = "solved") =>
              /\ Count(items_mask) >= Target
              /\ Count(heap'[solution'].items_mask) >= Target
              /\ (nrounds = 0 => Count(heap'[solution'].items_mask) = 1) ]_vars

\* A record produced after rounds ran, with a target of at least two.
StopWitness ==
    /\ pc = "solved"
    /\ nrounds >= 1
    /\ Target >= 2
    /\ Count(heap[solution].items_mask) >= Target

\* C5: no round lowers the number of mask-true slots.
MaskNeverShrinks ==
    [][ (pc = "loop" /\ pc' = "loop") =>
            Count(items_mask') >= Count(items_mask) ]_vars

\* A round produced an empty piece whose mask was cleared.
MaskWitness ==
    /\ pc = "loop"
    /\ nrounds >= 1
    /\ \E i \in DOMAIN items_mask : ~items_mask[i] /\ is_empty(items_spaces[i])

\* C3 as stated: for every configuration the splitting loop stops under
\* fair draws.  The live count never decreases, so this requires that as
\* long as the loop goes on some outcome of the draws adds an item.
AlwaysTerminates == CanRound => CanGrow

\* The largest dimension of the container.
MaxDim ==
    CHOOSE d \in {cfg.container_dims[i] : i \in 1 .. 3} :
        \A i \in 1 .. 3 : cfg.container_dims[i] <= d

\* Every product i * axis_len of a multi-split is below 2^24, so that the
\* float32 arithmetic of the piece bounds is exact.
ExactPieces == MaxDim < Pow2(MantissaBits) \div cfg.split_num_same_items

\* Configurations in which the target is reached: no round is needed, or
\* the container has room for target items of positive integer extents, the
\* piece bounds are exact and one of the two split modes can add an item (a
\* binary split can be drawn when the float32 value of prob_split_one_item
\* is positive, a multi-split of two pieces when prob_split_one_item is 0
\* and split_num_same_items >= 2).
Reachable ==
    \/ Target <= 1
    \/ /\ ContainerVolume >= Target
       /\ ExactPieces
       /\ \/ ProbFloat32(cfg.prob_split_one_item)[1] > 0
          \/ cfg.split_num_same_items >= 2

\* C3 amended: in every configuration whose target is reached, as long as
\* the loop goes on some outcome of the draws adds an item, and the loop
\* stops only with at least target live items; when the float32 value of
\* prob_split_one_item is 0 and split_num_same_items = 1, no outcome of the
\* draws of a round adds an item.
TerminatesWhenReachable ==
    /\ Reachable => (CanRound => CanGrow)
    /\ Reachable => (pc = "solved" => Count(items_mask) >= Target)
    /\ (ProbFloat32(cfg.prob_split_one_item)[1] = 0
            /\ cfg.split_num_same_items = 1) => ~CanGrow

\* A generation whose target can be reached has stopped after two rounds
\* that each added an item.
TerminationWitness ==
    /\ pc = "solved"
    /\ Target = 3
    /\ Count(items_mask) = 3
    /\ nrounds = 2
    /\ Reachable

\* C6 as stated: _unpack_items leaves the record passed in as it was and
\* returns another record.
UnpackKeepsInput ==
    pc = "reset" => heap[solution] = solved0 /\ state # solution

\* C7: the record returned by _unpack_items has no placed item, all
\* locations at the origin, the items and item mask of the solved record,
\* and an EMS mask whose only true entry is index 0, the whole container.
ResetConsistent ==
    pc = "reset" =>
        LET r == heap[state]
        IN  /\ \A i \in DOMAIN r.items_placed : ~r.items_placed[i]
            /\ DOMAIN r.items_placed = DOMAIN solved0.items_mask
            /\ \A i \in DOMAIN r.items_location :
                  r.items_location[i] = [x |-> 0, y |-> 0, z |-> 0]
            /\ DOMAIN r.items_location = DOMAIN solved0.items_mask
            /\ r.items = solved0.items
            /\ r.items_mask = solved0.items_mask
            /\ {i \in DOMAIN r.ems_mask : r.ems_mask[i]} = {0}
            /\ DOMAIN r.ems_mask = DOMAIN r.ems
            /\ r.ems[0] = make_container(cfg.container_dims)

\* A reset of a solved record that had a placed item away from the origin.
ResetWitness ==
    /\ pc = "reset"
    /\ \E i \in DOMAIN solved0.items_placed :
          solved0.items_placed[i] /\ solved0.items_location[i].x > 0

\* C9: the record of generate_solution and the record of __call__ for the
\* same generation have the same container, items and item mask; in the
\* solved record an item is placed exactly when its mask holds and its
\* location and extents give back its generated space; in the reset record
\* no item is placed.
SolvedUnpacksToSame ==
    /\ pc \in {"solved", "reset"} =>
          /\ solved0.items_placed = solved0.items_mask
          /\ solved0.items_mask = items_mask
          /\ \A i \in DOMAIN items_spaces :
                /\ solved0.items_location[i].x = items_spaces[i].x1
                /\ solved0.items_location[i].y = items_spaces[i].y1
                /\ solved0.items_location[i].z = items_spaces[i].z1
                /\ solved0.items_location[i].x + solved0.items[i].x_len
                       = items_spaces[i].x2
                /\ solved0.items_location[i].y + solved0.items[i].y_len
                       = items_spaces[i].y2
                /\ solved0.items_location[i].z + solved0.items[i].z_len
                       = items_spaces[i].z2
    /\ pc = "reset" =>
          /\ heap[state].container = solved0.container
          /\ heap[state].items = solved0.items
          /\ heap[state].items_mask = solved0.items_mask
          /\ \A i \in DOMAIN heap[state].items_placed : ~heap[state].items_placed[i]

\* Both records exist, the solved one with a mask-false slot and two placed
\* items.
SolvedWitness ==
    /\ pc = "reset"
    /\ Count(solved0.items_placed) >= 2
    /\ \E i \in DOMAIN solved0.items_mask : ~solved0.items_mask[i]

\* The key a key was derived from.
Parent(k) == SubSeq(k, 1, Len(k) - 1)

\* C10: no key is used twice (neither drawn from twice, nor split twice, nor
\* both); every key used is a sub-key of a key split before it; the top key
\* yields the stored key and the loop key; every round uses, in order, the
\* loop key (split), the round key (split), its first sub-key (axis draw),
\* its second sub-key (split in three), and of these the first (slot draw),
\* the third (mode draw) and the second (split point or count draw); the
\* stored key and the current loop key are unused.
SeedDiscipline ==
    pc # "init" =>
        /\ \A i \in DOMAIN keyLog : \A j \in DOMAIN keyLog :
              i # j => keyLog[i].key # keyLog[j].key
        /\ keyLog[1] = [key |-> <<>>, use |-> "split"]
        /\ state_key = <<0>>
        /\ \A i \in DOMAIN keyLog :
              /\ keyLog[i].key # state_key
              /\ keyLog[i].key # key
              /\ i > 1 => \E j \in 1 .. i - 1 :
                    keyLog[j].use = "split" /\ keyLog[j].key = Parent(keyLog[i].key)
        /\ Len(keyLog) = 1 + 7 * nrounds
        /\ \A r \in 0 .. nrounds - 1 :
              LET at(n) == keyLog[1 + 7 * r + n]
                  loop == at(1).key
                  round == loop \o <<1>>
                  split == round \o <<1>>
              IN  /\ Len(loop) = r + 1
                  /\ \A n \in DOMAIN loop : loop[n] = IF n = 1 THEN 1 ELSE 0
                  /\ at(1).use = "split"
                  /\ at(2) = [key |-> round, use |-> "split"]
                  /\ at(3) = [key |-> round \o <<0>>, use |-> "axis"]
                  /\ at(4) = [key |-> split, use |-> "split"]
                  /\ at(5) = [key |-> split \o <<0>>, use |-> "item"]
                  /\ at(6) = [key |-> split \o <<2>>, use |-> "mode"]
                  /\ at(7) = [key |-> split \o <<1>>, use |-> "point"]
        /\ key = [n \in 1 .. nrounds + 1 |-> IF n = 1 THEN 1 ELSE 0]

\* The keys of as many rounds as are logged.
SeedWitness ==
    /\ pc = "loop"
    /\ nrounds = MaxRounds
    /\ Len(keyLog) = 1 + 7 * MaxRounds
    /\ \E i \in DOMAIN keyLog : keyLog[i].use = "point" /\ Len(keyLog[i].key) = MaxRounds + 3

\* ------------------------------ properties of the deterministic generators
\* The data rows of the file at csv_path.
DataRows == [i \in 1 .. Len(csv_file) - 1 |-> csv_file[i + 1]]

\* A valid CSV: the schema header, at least one data row, and in every data
\* row five cells of which the last four are positive integers.
ValidCsv ==
    /\ Len(csv_file) >= 2
    /\ csv_file[1] = CSV_COLUMNS
    /\ \A i \in DOMAIN DataRows :
          /\ Len(DataRows[i]) = 5
          /\ \A j \in 2 .. 5 : \E n \in IntValues(DataRows[i][j]) : n > 0

\* The number of items of the first n data rows.
RECURSIVE QuantitySum(_)
QuantitySum(n) ==
    IF n = 0 THEN 0 ELSE QuantitySum(n - 1) + ParseInt(DataRows[n][5])

\* The instance held by the CSV generator, or the State at hand.
Instance == heap[instance_from_csv]

\* The (x_len, y_len, z_len) triples of a State and their numbers of items.
TripleOf(item) == <<item.x_len, item.y_len, item.z_len>>
TriplesOf(st) == {TripleOf(st.items[i]) : i \in DOMAIN st.items}
TripleCount(st, t) == Cardinality({i \in DOMAIN st.items : TripleOf(st.items[i]) = t})

\* The items save_instance_to_csv is to write: mask-true, positive extents.
Saved(st) ==
    {i \in DOMAIN st.items :
        /\ st.items_mask[i]
        /\ st.items[i].x_len > 0 /\ st.items[i].y_len > 0 /\ st.items[i].z_len > 0}
SavedTriples(st) == {TripleOf(st.items[i]) : i \in Saved(st)}
SavedCount(st, t) == Cardinality({i \in Saved(st) : TripleOf(st.items[i]) = t})

\* C11: when the header row of the file does not have five columns, or has
\* names or an order other than the schema, the constructor fails with the
\* schema error and no instance exists; when the header is the schema, no
\* schema error is raised.
SchemaValidation ==
    (gen = "csv" /\ pc # "init" /\ Len(csv_file) >= 1) =>
        /\ Len(csv_file[1]) # 5 =>
              /\ pc = "error"
              /\ error = "Got wrong number of columns"
              /\ heap = <<>> /\ instance_from_csv = 0
        /\ (Len(csv_file[1]) = 5 /\ csv_file[1] # CSV_COLUMNS) =>
              /\ pc = "error"
              /\ error = "Columns in wrong order"
              /\ heap = <<>> /\ instance_from_csv = 0
        /\ csv_file[1] = CSV_COLUMNS =>
              error \notin {"Got wrong number of columns", "Columns in wrong order"}

\* The constructor failed on a file with five columns in another order and
\* a well-formed data row.
SchemaWitness ==
    /\ gen = "csv"
    /\ pc = "error"
    /\ error = "Columns in wrong order"
    /\ Len(csv_file) = 2
    /\ csv_file[2] \in ValidRows

\* C12: for an instance read from a valid CSV, the file written by
\* save_instance_to_csv is read back as an instance with the same triples,
\* each with the same number of items.
CsvRoundTrip ==
    (gen = "csv" /\ pc = "reloaded" /\ ValidCsv) =>
        /\ reloaded.err = ""
        /\ TriplesOf(reloaded.state) = TriplesOf(Instance)
        /\ \A t \in TriplesOf(Instance) :
              TripleCount(reloaded.state, t) = TripleCount(Instance, t)

\* A round trip of a file with two rows of the same triple, of quantities 1
\* and 2, written as one row of quantity 3.
CsvRoundTripWitness ==
    /\ gen = "csv" /\ pc = "reloaded" /\ ValidCsv
    /\ Len(csv_file) = 3
    /\ Len(out_file) = 2
    /\ out_file[2][5] = "3"
    /\ ~(\A j \in 2 .. 5 : csv_file[2][j] = out_file[2][j])

\* C13: the instance built from a valid CSV holds, for each data row in
\* file order, quantity consecutive items of the row's dimensions; the
\* number of items and max_num_items are the sum of the quantities; every
\* item mask is true, no item is placed, every location is the origin and
\* the EMS mask has index 0 only.
CsvExpansion ==
    (gen = "csv" /\ pc = "ready" /\ ValidCsv) =>
        LET n == QuantitySum(Len(DataRows))
        IN  /\ DOMAIN Instance.items = 0 .. n - 1
            /\ DOMAIN Instance.items_mask = 0 .. n - 1
            /\ DOMAIN Instance.items_placed = 0 .. n - 1
            /\ DOMAIN Instance.items_location = 0 .. n - 1
            /\ cfg.max_num_items = n
            /\ \A r \in DOMAIN DataRows :
                  \A k \in 0 .. ParseInt(DataRows[r][5]) - 1 :
                      Instance.items[QuantitySum(r - 1) + k] =
                          [x_len |-> ParseInt(DataRows[r][2]),
                           y_len |-> ParseInt(DataRows[r][3]),
                           z_len |-> ParseInt(DataRows[r][4])]
            /\ \A i \in 0 .. n - 1 :
                  /\ Instance.items_mask[i]
                  /\ ~Instance.items_placed[i]
                  /\ Instance.items_location[i] = [x |-> 0, y |-> 0, z |-> 0]
            /\ {i \in DOMAIN Instance.ems_mask : Instance.ems_mask[i]} = {0}

\* An instance of two rows of different dimensions, the first of quantity 2.
CsvExpansionWitness ==
    /\ gen = "csv" /\ pc = "ready" /\ ValidCsv
    /\ Len(csv_file) = 3
    /\ csv_file[2][5] = "2"
    /\ csv_file[2][2] # csv_file[3][2]
    /\ Cardinality(DOMAIN Instance.items) >= 3

\* C14: the written file is the schema header followed by one row per
\* distinct triple of the mask-true items of positive extents, with the
\* number of such items as quantity, in non-increasing order of quantity,
\* the i-th row named shape_i.
SerializerCanonical ==
    pc \in {"saved", "reloaded"} =>
        LET st == Instance
            rows == [i \in 1 .. Len(out_file) - 1 |-> out_file[i + 1]]
        IN  /\ Len(out_file) >= 1
            /\ out_file[1] = CSV_COLUMNS
            /\ Len(rows) = Cardinality(SavedTriples(st))
            /\ \A i \in DOMAIN rows :
                  /\ Len(rows[i]) = 5
                  /\ rows[i][1] = "shape_" \o Str(i)
                  /\ \E t \in SavedTriples(st) :
                        /\ rows[i][2] = Str(t[1])
                        /\ rows[i][3] = Str(t[2])
                        /\ rows[i][4] = Str(t[3])
                        /\ rows[i][5] = Str(SavedCount(st, t))
            /\ \A i \in DOMAIN rows : \A j \in DOMAIN rows :
                  i # j => <<rows[i][2], rows[i][3], rows[i][4]>>
                               # <<rows[j][2], rows[j][3], rows[j][4]>>
            /\ \A i \in DOMAIN rows : \A j \in DOMAIN rows :
                  i < j => ParseInt(rows[i][5]) >= ParseInt(rows[j][5])

\* A State with a mask-false item of positive extents and a mask-true item
\* of zero extent was written as one row.
SerializerWitness ==
    /\ gen = "state" /\ pc = "saved"
    /\ \E i \in DOMAIN Instance.items : ~Instance.items_mask[i] /\ Instance.items[i].x_len = 2
    /\ \E i \in DOMAIN Instance.items : Instance.items_mask[i] /\ Instance.items[i].x_len = 0
    /\ Len(out_file) = 2
    /\ out_file[2] = <<"shape_1", "1", "1", "1", "1">>

\* The box of item i of a State: its location and its extents.
BoxOf(st, i) ==
    [x1 |-> st.items_location[i].x, x2 |-> st.items_location[i].x + st.items[i].x_len,
     y1 |-> st.items_location[i].y, y2 |-> st.items_location[i].y + st.items[i].y_len,
     z1 |-> st.items_location[i].z, z2 |-> st.items_location[i].z + st.items[i].z_len]

\* The volume of a box in two parts, <<thousands, units>> with
\* volume = thousands * 1000 + units, each part within 32-bit integers.
VolumeParts(space) ==
    LET base == (space.x2 - space.x1) * (space.y2 - space.y1)
        height == space.z2 - space.z1
    IN  <<(base \div 1000) * height, (base % 1000) * height>>

RECURSIVE SumParts(_, _)
SumParts(st, S) ==
    IF S = {} THEN <<0, 0>>
    ELSE LET i == CHOOSE j \in S : TRUE
             v == VolumeParts(BoxOf(st, i))
             rest == SumParts(st, S \ {i})
         IN  <<v[1] + rest[1], v[2] + rest[2]>>

\* <<thousands, units>> with units below 1000.
Normal(parts) == <<parts[1] + (parts[2] \div 1000), parts[2] % 1000>>

\* The records returned by the calls of an operation.
Results(op) == {heap[calls[n].ref] : n \in {m \in DOMAIN calls : calls[m].op = op}}

\* C15: in the solved record of the toy generator the 20 items, at their
\* locations, lie within the container (5870, 2330, 2200), do not overlap
\* pairwise, and their volumes sum to the volume of the container.
ToyPerfectPacking ==
    gen = "toy" =>
        \A st \in Results("generate_solution") :
            /\ st.container = make_container(<<5870, 2330, 2200>>)
            /\ DOMAIN st.items = 0 .. 19
            /\ DOMAIN st.items_location = 0 .. 19
            /\ \A i \in 0 .. 19 :
                  /\ st.items[i].x_len > 0 /\ st.items[i].y_len > 0
                  /\ st.items[i].z_len > 0
                  /\ Within(BoxOf(st, i), <<5870, 2330, 2200>>)
            /\ \A i \in 0 .. 19 : \A j \in 0 .. 19 :
                  i # j => Disjoint(BoxOf(st, i), BoxOf(st, j))
            /\ Normal(SumParts(st, 0 .. 19)) = Normal(VolumeParts(st.container))

\* The toy generator returned its solution, with an item that touches the
\* far corner of the container.
ToyPackingWitness ==
    /\ gen = "toy"
    /\ \E st \in Results("generate_solution") :
          \E i \in 0 .. 19 :
              /\ BoxOf(st, i).x2 = 5870
              /\ BoxOf(st, i).y2 = 2330
              /\ BoxOf(st, i).z2 = 2200

\* C16: whatever the keys, the records returned by the calls of one
\* operation of the toy generator are the same record, the solution being
\* the 20 items of the table, all mask-true and placed at the locations of
\* the table; every call of the CSV generator returns the instance built
\* by the constructor; the key stored in every record is PRNGKey(0).
KeyIgnored ==
    /\ gen = "toy" =>
          /\ Cardinality(Results("generate_solution")) <= 1
          /\ Cardinality(Results("call")) <= 1
          /\ \A st \in Results("generate_solution") \cup Results("call") :
                /\ st.key = PRNGKey(0)
                /\ DOMAIN st.items = 0 .. 19
                /\ \A i \in 0 .. 19 :
                      /\ st.items_mask[i]
                      /\ st.items[i] = [x_len |-> ToyXLen[i + 1], y_len |-> ToyYLen[i + 1],
                                        z_len |-> ToyZLen[i + 1]]
          /\ \A st \in Results("generate_solution") :
                \A i \in 0 .. 19 :
                    /\ st.items_placed[i]
                    /\ st.items_location[i] =
                           [x |-> ToyX[i + 1], y |-> ToyY[i + 1], z |-> ToyZ[i + 1]]
    /\ (gen = "csv" /\ pc = "ready") =>
          /\ \A n \in DOMAIN calls : calls[n].ref = instance_from_csv
          /\ Instance = parse_csv_file(csv_file, cfg.max_num_ems, cfg.container_dims).state
          /\ Instance.key = PRNGKey(0)

\* The solution of the toy generator was asked for twice, with two keys.
KeyIgnoredWitness ==
    /\ gen = "toy"
    /\ Len(calls) = 2
    /\ calls[1].op = "generate_solution"
    /\ calls[2].op = "generate_solution"
    /\ calls[1].key # calls[2].key
    /\ calls[1].ref # calls[2].ref

\* ------------------------------------------- properties of a single split
\* The two axes other than the given one.
OtherAxes(axis) == Axes \ {axis}

\* The interval of a space on an axis, as <<lower, upper>>.
Interval(space, axis) == <<get_axis_value(space, axis, 1), get_axis_value(space, axis, 2)>>

\* The loop is at its test and runs a round.
RoundRuns == pc = "loop" /\ cond_fun(cfg, items_mask)

\* The outcomes of the draws of the round that is about to run.
RoundDraws == Draws(cfg, items_spaces, items_mask)

\* The slots as _split_along_axis leaves them for the draws d, before the
\* empty items are removed.
AfterSplit(d) == SplitAlongAxis(cfg, d.axis, items_spaces, items_mask, d)

\* C17: in every state of the splitting loop and for every axis, some slot
\* has a non-zero selection weight, and every slot the selection can return
\* is mask-true with a positive extent along the axis.
SlotSelection ==
    pc = "loop" =>
        \A axis \in Axes :
            LET p == Weights(axis, items_spaces, items_mask)
            IN  /\ \E i \in DOMAIN p : p[i] # 0
                /\ \A item_id \in Choice(p) :
                      /\ items_mask[item_id]
                      /\ Interval(items_spaces[item_id], axis)[2]
                             - Interval(items_spaces[item_id], axis)[1] > 0

\* After a round, a selection is made among slots of which one is
\* mask-false with positive extents and one is mask-false and empty.
SlotSelectionWitness ==
    /\ RoundRuns
    /\ nrounds >= 1
    /\ Count(items_mask) >= 2
    /\ \E i \in DOMAIN items_mask : ~items_mask[i] /\ ~is_empty(items_spaces[i])
    /\ \E i \in DOMAIN items_mask : ~items_mask[i] /\ is_empty(items_spaces[i])

\* C18 as stated: the split point p of a binary split of the interval
\* [a, b] satisfies a + split_eps * (b - a) <= p <= b - split_eps * (b - a)
\* and both pieces have a positive length.
SplitPointInsideMargins ==
    RoundRuns =>
        \A d \in RoundDraws :
            d.once =>
                LET a == Interval(items_spaces[d.item_id], d.axis)[1]
                    b == Interval(items_spaces[d.item_id], d.axis)[2]
                    num == cfg.split_eps[1]
                    den == cfg.split_eps[2]
                IN  /\ a * den + num * (b - a) <= d.val * den
                    /\ d.val * den <= b * den - num * (b - a)
                    /\ a < d.val /\ d.val < b

\* C19: a binary split of slot s with interval [a, b] on the axis at the
\* point p leaves s with [a, p] on the axis, writes [p, b] on the axis into
\* one slot that was mask-false, with the bounds of s on the other axes,
\* marks it occupied, and changes nothing else; a <= p <= b, so the two
\* pieces cover the box of s.
BinarySplitEffect ==
    RoundRuns =>
        \A d \in RoundDraws :
            d.once =>
                LET s == d.item_id
                    a == Interval(items_spaces[s], d.axis)[1]
                    b == Interval(items_spaces[s], d.axis)[2]
                    r == AfterSplit(d)
                    new == r.allocs[1]
                IN  /\ Len(r.allocs) = 1
                    /\ new # s
                    /\ ~items_mask[new]
                    /\ r.mask = [items_mask EXCEPT ![new] = TRUE]
                    /\ Interval(r.spaces[s], d.axis) = <<a, d.val>>
                    /\ Interval(r.spaces[new], d.axis) = <<d.val, b>>
                    /\ \A o \in OtherAxes(d.axis) :
                          /\ Interval(r.spaces[s], o) = Interval(items_spaces[s], o)
                          /\ Interval(r.spaces[new], o) = Interval(items_spaces[s], o)
                    /\ \A i \in DOMAIN items_spaces :
                          i \notin {s, new} => r.spaces[i] = items_spaces[i]
                    /\ a <= d.val /\ d.val <= b
                    /\ Volume(r.spaces[s]) + Volume(r.spaces[new]) = Volume(items_spaces[s])

\* A binary split strictly inside the interval of a slot that is not at the
\* origin of the axis.
BinarySplitWitness ==
    /\ RoundRuns
    /\ \E d \in RoundDraws :
          /\ d.once
          /\ Interval(items_spaces[d.item_id], d.axis)[1] > 0
          /\ Interval(items_spaces[d.item_id], d.axis)[1] < d.val
          /\ d.item_id # ArgMin(items_mask)

\* C20 as stated: a multi-split with count n, 1 <= n <= split_num_same_items, of slot
\* s with interval ab = [a, b] of length L leaves s with [a, a + L \div n] and
\* writes [a + (i * L) \div n, a + ((i + 1) * L) \div n], i = 1 .. n - 1,
\* into n - 1 different slots that were mask-false, in order, each with the
\* bounds of s on the other axes and marked occupied; consecutive pieces
\* share their boundary, the last piece ends at b, and the lengths of two
\* pieces differ by at most 1.
MultiSplitPartition ==
    RoundRuns =>
        \A d \in RoundDraws :
            ~d.once =>
                \E r \in {AfterSplit(d)} :
                \E ab \in {Interval(items_spaces[d.item_id], d.axis)} :
                \E slots \in {<<d.item_id>> \o r.allocs} :
                \E pieces \in {[i \in DOMAIN slots |-> Interval(r.spaces[slots[i]], d.axis)]} :
                \E lengths \in {{pieces[i][2] - pieces[i][1] : i \in DOMAIN pieces}} :
                    /\ 1 <= d.val /\ d.val <= cfg.split_num_same_items
                    /\ Len(slots) = d.val
                    /\ Cardinality({slots[i] : i \in DOMAIN slots}) = d.val
                    /\ \A i \in 2 .. d.val : ~items_mask[slots[i]] /\ r.mask[slots[i]]
                    /\ \A i \in 1 .. d.val :
                          /\ pieces[i] = <<ab[1] + (((i - 1) * (ab[2] - ab[1])) \div d.val),
                                           ab[1] + ((i * (ab[2] - ab[1])) \div d.val)>>
                          /\ \A o \in OtherAxes(d.axis) :
                                Interval(r.spaces[slots[i]], o)
                                    = Interval(items_spaces[d.item_id], o)
                    /\ pieces[1][1] = ab[1]
                    /\ pieces[d.val][2] = ab[2]
                    /\ \A i \in 1 .. d.val - 1 : pieces[i][2] = pieces[i + 1][1]
                    /\ \A x \in lengths : \A y \in lengths : x - y <= 1

\* C21: after every round every mask-true slot has a strictly positive
\* extent on each of the three axes, and the solved record and the reset
\* record expose no mask-true item with a zero extent.
NoEmptyLiveItems ==
    /\ pc # "init" =>
          \A i \in Live : \A axis \in Axes :
              Interval(items_spaces[i], axis)[1] < Interval(items_spaces[i], axis)[2]
    /\ pc \in {"solved", "reset"} =>
          \A i \in DOMAIN solved0.items_mask :
              solved0.items_mask[i] =>
                  \A axis \in Axes : AxisLen(solved0.items[i], axis) > 0
    /\ pc = "reset" =>
          \A i \in DOMAIN heap[state].items_mask :
              heap[state].items_mask[i] =>
                  \A axis \in Axes : AxisLen(heap[state].items[i], axis) > 0

\* The returned record holds a piece of zero length on x whose mask was
\* cleared, next to at least two live items.
NoEmptyLiveWitness ==
    /\ pc = "solved"
    /\ Count(solved0.items_mask) >= 2
    /\ \E i \in DOMAIN solved0.items_mask :
          ~solved0.items_mask[i] /\ solved0.items[i].x_len = 0

\* The result of one whole round for the draws d: the split and the removal
\* of empty items.
AfterRound(d) == SplitSpaceIntoSubSpaces(cfg, items_spaces, items_mask, d)

\* The slots written by the split of a round.
Pieces(r) == {r.allocs[k] : k \in DOMAIN r.allocs}

\* C22: a round changes the bounds only of the selected slot and of slots
\* that were mask-false before it; every other mask-true slot keeps its six
\* bounds and its mask bit; the selected slot and every new piece have the
\* bounds of the selected slot on the two axes that are not split.
RoundFrame ==
    RoundRuns =>
        \A d \in RoundDraws :
            \A r \in {AfterRound(d)} :
                /\ \A i \in DOMAIN items_mask :
                      r.spaces[i] # items_spaces[i] =>
                          (i = d.item_id \/ ~items_mask[i])
                /\ \A i \in DOMAIN items_mask :
                      (items_mask[i] /\ i # d.item_id) =>
                          (r.spaces[i] = items_spaces[i] /\ r.mask[i])
                /\ \A i \in {d.item_id} \cup Pieces(r) :
                      \A o \in OtherAxes(d.axis) :
                          Interval(r.spaces[i], o)
                              = Interval(items_spaces[d.item_id], o)

\* A round that writes a new piece while another slot is live, and whose
\* selected slot, not slot 0, is narrower than the container on an axis that
\* is not split.
RoundFrameWitness ==
    /\ RoundRuns
    /\ \E d \in RoundDraws :
          /\ d.item_id # 0
          /\ Pieces(AfterRound(d)) # {}
          /\ \E i \in Live : i # d.item_id
          /\ \E o \in OtherAxes(d.axis) :
                Interval(items_spaces[d.item_id], o)
                    # Interval(make_container(cfg.container_dims), o)

\* The occupancy mask at the moment of the k-th allocation of a split that
\* allocates the slots allocs, in order.
MaskAt(allocs, k) ==
    [i \in DOMAIN items_mask |->
        items_mask[i] \/ (\E t \in 1 .. k - 1 : allocs[t] = i)]

\* C23: every slot written by a binary split or by a step of a multi-split
\* is the lowest-index mask-false slot at the moment it is written; a binary
\* split writes one slot, a multi-split into n pieces writes n-1 slots, all
\* different.
AllocationOrder ==
    RoundRuns =>
        \A d \in RoundDraws :
            \A allocs \in {AfterSplit(d).allocs} :
                /\ Len(allocs) = IF d.once THEN 1 ELSE d.val - 1
                /\ \A k \in DOMAIN allocs :
                      \A m \in {MaskAt(allocs, k)} :
                          /\ ~m[allocs[k]]
                          /\ \A j \in DOMAIN m : j < allocs[k] => m[j]
                /\ \A k \in DOMAIN allocs : \A l \in DOMAIN allocs :
                      k # l => allocs[k] # allocs[l]

\* A multi-split into three pieces of a slot that is not slot 0, while
\* slot 0 is mask-false: the two allocations are slot 0 and a higher slot.
AllocationWitness ==
    /\ RoundRuns
    /\ ~items_mask[0]
    /\ \E d \in RoundDraws :
          /\ ~d.once
          /\ d.val = 3
          /\ d.item_id # 0
          /\ AfterSplit(d).allocs[1] = 0
          /\ AfterSplit(d).allocs[2] > d.item_id

\* The slots a round can select for a binary split: the mode test can
\* succeed and the slot can be drawn on some axis.
BinaryCandidates ==
    IF TRUE \in Modes(cfg)
    THEN {<<axis, item_id>> : axis \in Axes, item_id \in DOMAIN items_mask}
         \cap UNION {{<<axis, item_id>> :
                         item_id \in Choice(Weights(axis, items_spaces, items_mask))} :
                     axis \in Axes}
    ELSE {}

\* The bounds axis_min and axis_max handed to randint for a slot with
\* interval ab on the split axis.
RangeBounds(ab) ==
    <<ab[1] + Padding(cfg.split_eps, ab[2] - ab[1]),
      ab[2] - Padding(cfg.split_eps, ab[2] - ab[1])>>

\* The split points randint can return for slot item_id on the axis.
SplitPoints(axis, item_id) ==
    SplitOnceRange(cfg, items_spaces[item_id], axis,
                   Interval(items_spaces[item_id], axis)[2]
                   - Interval(items_spaces[item_id], axis)[1])

\* C24 as stated: for every slot that can be selected for a binary split,
\* the range [axis_min, axis_max) handed to randint is not empty and the
\* split point p satisfies a <= p < b.
SplitRangeNonEmpty ==
    RoundRuns =>
        \A c \in BinaryCandidates :
            \A ab \in {Interval(items_spaces[c[2]], c[1])} :
                /\ ab[2] - ab[1] >= 1
                /\ RangeBounds(ab)[1] < RangeBounds(ab)[2]
                /\ \A p \in SplitPoints(c[1], c[2]) : ab[1] <= p /\ p < ab[2]

\* The float32 value of split_eps is below 0.5.
EpsBelowHalf == 2 * Float32(cfg.split_eps)[1] < Pow2(Float32(cfg.split_eps)[2])

\* C24 amended: for every slot that can be selected for a binary split the
\* split point satisfies a <= p < b.  For a length L below 2^24 (its own
\* float32 value), the range handed to randint is not empty when the
\* float32 value of split_eps is below 0.5; when it is 0.5 the range is
\* empty for an even L, and the split point is a + L / 2, and it is the
\* single point a + (L - 1) / 2 for an odd L.
SplitPointInSlot ==
    RoundRuns =>
        \A c \in BinaryCandidates :
            \A ab \in {Interval(items_spaces[c[2]], c[1])} :
            \A L \in {ab[2] - ab[1]} :
                /\ L >= 1
                /\ \A p \in SplitPoints(c[1], c[2]) : ab[1] <= p /\ p < ab[2]
                /\ (L < Pow2(MantissaBits) /\ EpsBelowHalf) =>
                      RangeBounds(ab)[1] < RangeBounds(ab)[2]
                /\ (L < Pow2(MantissaBits) /\ ~EpsBelowHalf /\ L % 2 = 0) =>
                      /\ RangeBounds(ab)[1] = RangeBounds(ab)[2]
                      /\ SplitPoints(c[1], c[2]) = {ab[1] + L \div 2}
                /\ (L < Pow2(MantissaBits) /\ ~EpsBelowHalf /\ L % 2 = 1) =>
                      /\ RangeBounds(ab)[2] = RangeBounds(ab)[1] + 1
                      /\ SplitPoints(c[1], c[2]) = {ab[1] + (L - 1) \div 2}

\* With split_eps = 0.49999999 a slot of even length, 4 or more, and a slot
\* of odd length, 3 or more, can be selected for a binary split in the same
\* state; each has a single split point.
SplitPointWitness ==
    /\ RoundRuns
    /\ ~EpsBelowHalf
    /\ \E c \in BinaryCandidates :
          \E ab \in {Interval(items_spaces[c[2]], c[1])} :
              /\ ab[2] - ab[1] >= 4
              /\ (ab[2] - ab[1]) % 2 = 0
              /\ RangeBounds(ab)[1] = RangeBounds(ab)[2]
              /\ SplitPoints(c[1], c[2]) = {ab[1] + (ab[2] - ab[1]) \div 2}
    /\ \E c \in BinaryCandidates :
          \E ab \in {Interval(items_spaces[c[2]], c[1])} :
              /\ ab[2] - ab[1] >= 3
              /\ (ab[2] - ab[1]) % 2 = 1
              /\ SplitPoints(c[1], c[2]) = {ab[1] + (ab[2] - ab[1] - 1) \div 2}

\* C25 as stated: a round whose multi-split draws the count n = 1 allocates
\* no slot and leaves the bounds of every slot and the whole mask as they
\* were.
SingleCountNoOp ==
    RoundRuns =>
        \A d \in RoundDraws :
            (~d.once /\ d.val = 1) =>
                \A r \in {AfterRound(d)} :
                    /\ r.allocs = <<>>
                    /\ r.spaces = items_spaces
                    /\ r.mask = items_mask
                    /\ Interval(r.spaces[d.item_id], d.axis)
                           = Interval(items_spaces[d.item_id], d.axis)

====
